---------------------------- MODULE Spec2Model ----------------------------
(***************************************************************************)
(* Model of the matching subsystem of g-match-backend:                     *)
(*   - the queue producers (match/match_service.py, match/views.py),       *)
(*   - the Edge Calculator (matcher/edge_calculator.py),                   *)
(*   - the Match Scheduler (matcher/match_scheduler.py),                   *)
(* over the shared Redis cache and the MySQL tables match_history and      *)
(* match_properties.  One action is one network call (Redis or MySQL)      *)
(* together with the local computation that precedes it.                   *)
(*                                                                         *)
(* Identifiers.  RedisQueueService.register_user writes entries that carry *)
(* the key "user_id" (a UUID); MatchingViewSet.start writes entries that   *)
(* carry the key "user_pk".  The two identifier spaces are disjoint:       *)
(* IdUsers are the users registered under a UUID, PkUsers those registered *)
(* under a pk.  The Edge Calculator reads "user_pk" and writes edges with  *)
(* "user_a_pk"/"user_b_pk"; the Scheduler reads "user_id" from entries and *)
(* "user_a_id"/"user_b_id" from edges.  A read of a missing key raises      *)
(* KeyError, which the model follows to the handler that catches it.       *)
(*                                                                         *)
(* Scores are kept in hundredths of a point (80.0 is 8000).                *)
(***************************************************************************)
EXTENDS Integers, Sequences, FiniteSets, TLC

\* ------------------------------------------------------------------ bounds
\* users registered through RedisQueueService.register_user ("user_id")
IdUsers == {1, 2, 3}
\* users registered through MatchingViewSet.start ("user_pk")
PkUsers == {4, 5, 6}
Users == IdUsers \cup PkUsers
\* scheduler instances (pods) that may be deployed
Insts == {1, 2}
\* registrations in one behaviour
MaxRegs == 2
\* the clock stops at MaxNow (hours)
MaxNow == 48
\* one clock step (hours)
TickHours == 24
\* iterations of one scheduler instance, and lock acquisitions overall
MaxCycles == 2
\* edges in an input of find_matching_pairs
MaxEdges == 3

\* --------------------------------------------------------- program constants
MATCH_THRESHOLD == 8000
EXPIRE_HOURS == 24
PENALTY_SCORE == 500

\* match_properties.match_status values the core reads or writes
NOT_STARTED == 0
IN_QUEUE == 1
MATCHED == 2
EXPIRED == 9

\* ------------------------------------------------------------------- data
Min(a, b) == IF a <= b THEN a ELSE b
Max(a, b) == IF a >= b THEN a ELSE b

\* absent cache value (GET returns None)
NoEntry == [absent |-> TRUE]
NoEdge == [absent |-> TRUE]
NoLock == [absent |-> TRUE]

\* canonical edge keys: match:edge:<min>:<max>
Pairs == {p \in Users \X Users : p[1] < p[2]}

\* the account's gender, copied into Property.gender (read-only there)
Gender(u) == IF u = 6 THEN "F" ELSE "M"

\* ----------------------------------------------------------- queue entries
\* survey dimensions kept by the model (two of the 19 keys of SurveySerializer)
SurveyKeys == {"time_1", "clean_1"}

\* the Property and Survey rows of user u, as register_user copies them into
\* the entry; weights are in halves (0.5 is 1, 1.0 is 2, 1.5 is 3)
Basic(u) ==
    [gender |-> Gender(u),
     dorm_building |-> IF u = 5 THEN "I" ELSE "G",
     stay_period |-> 2,
     is_smoker |-> FALSE,
     has_fridge |-> (u = 4),
     mate_fridge |-> IF u = 5 THEN 1 ELSE 0,
     has_router |-> FALSE,
     mate_router |-> 0]
SurveyOf(u) == [k \in SurveyKeys |-> IF k = "time_1" THEN 3 ELSE 1 + (u % 3)]
WeightsOf(u) == [k \in SurveyKeys |-> IF k = "time_1" THEN 2 ELSE 1 + (u % 2)]
Profile(u) == [basic |-> Basic(u), survey |-> SurveyOf(u), weights |-> WeightsOf(u)]

\* the value register_user / start stores under match:user-queue:<u>
NewEntry(t) == [priority |-> 0, registered_at |-> t, edge_calculated |-> FALSE]

Present(e) == e # NoEntry
HasUserId(u) == u \in IdUsers
HasUserPk(u) == u \in PkUsers

\* ----------------------------------------------------------------- scoring
Abs(x) == IF x < 0 THEN -x ELSE x

RECURSIVE SumOver(_, _)
SumOver(S, f) ==
    IF S = {} THEN 0
    ELSE LET k == CHOOSE x \in S : TRUE IN f[k] + SumOver(S \ {k}, f)

\* round(n / d) to the nearest integer, ties to even (Python's round)
RoundDiv(n, d) ==
    LET q == n \div d
        r == n % d
    IN IF 2 * r < d THEN q
       ELSE IF 2 * r > d THEN q + 1
       ELSE IF q % 2 = 0 THEN q ELSE q + 1

check_hard_filter(user_a, user_b) == user_a.basic.gender = user_b.basic.gender

_calculate_preference_penalty(checker, target) ==
    LET mate_smoker == 0
    IN    (IF mate_smoker = 1 /\ ~target.is_smoker THEN PENALTY_SCORE ELSE 0)
        + (IF mate_smoker = 2 /\ target.is_smoker THEN PENALTY_SCORE ELSE 0)
        + (IF checker.mate_fridge = 1 /\ ~target.has_fridge THEN PENALTY_SCORE ELSE 0)
        + (IF checker.mate_fridge = 2 /\ target.has_fridge THEN PENALTY_SCORE ELSE 0)
        + (IF checker.mate_router = 1 /\ ~target.has_router THEN PENALTY_SCORE ELSE 0)
        + (IF checker.mate_router = 2 /\ target.has_router THEN PENALTY_SCORE ELSE 0)

calculate_basic_penalty(user_a, user_b) ==
      (IF user_a.basic.dorm_building # user_b.basic.dorm_building THEN PENALTY_SCORE ELSE 0)
    + (IF user_a.basic.stay_period # user_b.basic.stay_period THEN PENALTY_SCORE ELSE 0)
    + _calculate_preference_penalty(user_a.basic, user_b.basic)
    + _calculate_preference_penalty(user_b.basic, user_a.basic)

\* weighted_sum / weight_total as the fraction <<numerator, denominator>>
_calculate_one_direction(from_user, to_user) ==
    LET keys == DOMAIN from_user.weights
        num == SumOver(keys, [k \in keys |->
                   from_user.weights[k] * (4 - Abs(from_user.survey[k] - to_user.survey[k]))])
        den == 4 * SumOver(keys, from_user.weights)
    IN IF den = 0 THEN <<0, 1>> ELSE <<num, den>>

\* calculate_similarity from the first user's direction alone
calculate_similarity_one_way(user_a, user_b) ==
    LET ab == _calculate_one_direction(user_a, user_b)
    IN RoundDiv(10000 * ab[1], ab[2])

calculate_similarity(user_a, user_b) ==
    LET ab == _calculate_one_direction(user_a, user_b)
        ba == _calculate_one_direction(user_b, user_a)
    IN RoundDiv(10000 * (ab[1] * ba[2] + ba[1] * ab[2]), 2 * ab[2] * ba[2])

\* calculate_final_score without max(0, ...)
calculate_final_score_unclamped(user_a, user_b) ==
    calculate_similarity(user_a, user_b) - calculate_basic_penalty(user_a, user_b)

calculate_final_score(user_a, user_b) ==
    Max(0, calculate_similarity(user_a, user_b) - calculate_basic_penalty(user_a, user_b))

\* ------------------------------------------------------ greedy pair selection
\* an edge as the Scheduler holds it: [a, b, score]; users: user -> entry
PriorityOf(users, u) == IF Present(users[u]) THEN users[u].priority ELSE 0
PrioritySum(users, e) == PriorityOf(users, e.a) + PriorityOf(users, e.b)

\* a sort key compared by score first and priority sum second
KeyGreaterScoreFirst(k1, k2) == k1[2] > k2[2] \/ (k1[2] = k2[2] /\ k1[1] > k2[1])

\* sort key (_priority_sum, score): k1 sorts strictly before k2 under reverse=True
KeyGreater(k1, k2) == k1[1] > k2[1] \/ (k1[1] = k2[1] /\ k1[2] > k2[2])

\* a sort that keeps one edge per sort key: an edge whose key is already in
\* the list is dropped
InsertDescUnique(e, sorted, users) ==
    LET key(x) == <<PrioritySum(users, x), x.score>>
        n == Cardinality({j \in DOMAIN sorted : KeyGreater(key(sorted[j]), key(e))})
    IN IF \E j \in DOMAIN sorted : key(sorted[j]) = key(e)
       THEN sorted
       ELSE SubSeq(sorted, 1, n) \o <<e>> \o SubSeq(sorted, n + 1, Len(sorted))

\* list.sort(key, reverse=True) is stable: equal keys keep their input order
RECURSIVE InsertDesc(_, _, _)
InsertDesc(e, sorted, users) ==
    IF sorted = <<>> THEN <<e>>
    ELSE IF KeyGreater(<<PrioritySum(users, e), e.score>>,
                       <<PrioritySum(users, Head(sorted)), Head(sorted).score>>)
         THEN <<e>> \o sorted
         ELSE <<Head(sorted)>> \o InsertDesc(e, Tail(sorted), users)

RECURSIVE SortDesc(_, _)
SortDesc(es, users) ==
    IF es = <<>> THEN <<>>
    ELSE InsertDesc(es[Len(es)], SortDesc(SubSeq(es, 1, Len(es) - 1), users), users)

\* a selection that takes every edge of the sorted list
GreedyAll(es, matched_users) == es

RECURSIVE Greedy(_, _)
Greedy(es, matched_users) ==
    IF es = <<>> THEN <<>>
    ELSE LET e == Head(es) IN
         IF e.a \notin matched_users /\ e.b \notin matched_users
         THEN <<e>> \o Greedy(Tail(es), matched_users \cup {e.a, e.b})
         ELSE Greedy(Tail(es), matched_users)

\* find_matching_pairs with the threshold test left out
AdmittedAll(e, threshold) == TRUE

Admitted(e, threshold) == e.score >= threshold

\* find_matching_pairs with a priority bypass: an edge below the threshold
\* is admitted too once one of its users has priority 10 or more
find_matching_pairs_bypass(es, users, threshold) ==
    LET valid_edges == SelectSeq(es, LAMBDA e :
            \/ Admitted(e, threshold)
            \/ Max(PriorityOf(users, e.a), PriorityOf(users, e.b)) >= 10)
    IN Greedy(SortDesc(valid_edges, users), {})

find_matching_pairs(es, users, threshold) ==
    LET valid_edges == SelectSeq(es, LAMBDA e : Admitted(e, threshold))
    IN Greedy(SortDesc(valid_edges, users), {})

VARIABLES
    queue,      \* cache: match:user-queue:<u> -> entry or NoEntry
    edges,      \* cache: match:edge:<a>:<b> -> edge or NoEdge
    lock,       \* cache: match:gc:lock -> token or NoLock
    status,     \* DB: match_properties.match_status of u's property row
    history,    \* DB: committed match_history rows, as a count per pair
    now,        \* wall clock, hours
    regs,       \* registrations so far
    cpc,        \* Edge Calculator: position in run_polling
    cloc,       \* Edge Calculator: locals of the current pass
    pc,         \* Scheduler i: position in run_scheduler
    loc,        \* Scheduler i: locals of the current iteration
    txn,        \* Scheduler i: uncommitted statements of conn
    log,        \* Scheduler i: what the current iteration did (for the checks)
    ghost       \* history of the run (for the checks)

vars == <<queue, edges, lock, status, history, now, regs, cpc, cloc, pc, loc, txn, log, ghost>>
cacheVars == <<queue, edges, lock>>
dbVars == <<status, history>>
calcVars == <<cpc, cloc>>
schedVars == <<pc, loc, txn, log>>


\* ---------------------------------------------------------------- initially
\* scores of the edges the cache holds when the workers start
InitScores == {7500, 9000}

\* every enumeration of the set S (KEYS returns the keys in no fixed order)
SeqsOf(S) == {q \in [1..Cardinality(S) -> S] : \A x \in S : \E j \in DOMAIN q : q[j] = x}

LockToken(i, n) == [owner |-> i, n |-> n]

\* locals of an iteration; unlocked is what release_lock got from the script
\* at the end of the previous iteration (2: no release yet)
LocInit ==
    [cycles |-> 0, edges |-> <<>>, users |-> [u \in Users |-> NoEntry], idx |-> 0,
     pairs |-> <<>>, keys |-> {}, cur |-> 0, data |-> NoEntry, expired |-> {}, now |-> 0,
     unlocked |-> 2]
TxnInit == [rows |-> {}, upd |-> {}]
\* what an iteration has done and met so far.  err: the exception that ended
\* run_matching_cycle; sent: the notifications handed to the notifier; ready
\* and mixed: what the cache held when the lock was acquired; nfail: the
\* pairs whose notifications failed
LogInit == [evicted |-> {}, rows |-> {}, st |-> {}, failed |-> {}, rank |-> 0,
            completed |-> FALSE, err |-> "none", sent |-> {}, ready |-> {},
            mixed |-> FALSE, nfail |-> {}]
\* acq: locks acquired so far; lastMut: the acquisition whose cycle wrote last;
\* wrote: the acquisitions whose cycle wrote to the cache or the DB;
\* ttl: the lock key has expired; sdel: users whose key the Scheduler deleted
\* and who have not registered since
GhostInit == [acq |-> 0, lastMut |-> 0, wrote |-> {}, ttl |-> FALSE, sdel |-> {}]
CLocInit == [new |-> <<>>, calc |-> {}, todo |-> {}, fresh |-> NoEntry]

\* The property rows agree with the queue q at time t.  The cache may
\* hold edges in the format the Scheduler reads (user_a_id / user_b_id),
\* left by the calculator build the Scheduler was written against.
PresentUsers(q) == {u \in Users : Present(q[u])}
EmptyQueue == [u \in Users |-> NoEntry]

InitWith(stale, q, t, l) ==
    /\ queue = q
    /\ \E left \in [stale -> {NoEdge} \cup [score : InitScores]] :
         edges = [p \in Pairs |-> IF p \in stale THEN left[p] ELSE NoEdge]
    /\ lock = NoLock
    /\ status = [u \in Users |-> IF Present(q[u]) THEN IN_QUEUE ELSE NOT_STARTED]
    /\ history = [p \in Pairs |-> 0]
    /\ now = t
    /\ regs = 0
    /\ cpc = "idle"
    /\ cloc = CLocInit
    /\ pc = [i \in Insts |-> "sleep"]
    /\ loc = l
    /\ txn = [i \in Insts |-> TxnInit]
    /\ log = [i \in Insts |-> LogInit]
    /\ ghost = GhostInit

Idle == [i \in Insts |-> LocInit]

Init == InitWith({<<1, 2>>}, EmptyQueue, 0, Idle)

\* ---------------------------------------------------------------- producers
\* MatchingService.start_matching + RedisQueueService.register_user
start_matching(u) ==
    /\ u \in IdUsers
    /\ regs < MaxRegs
    /\ status[u] = NOT_STARTED
    /\ queue' = [queue EXCEPT ![u] = NewEntry(now)]
    /\ status' = [status EXCEPT ![u] = IN_QUEUE]
    /\ regs' = regs + 1
    /\ ghost' = [ghost EXCEPT !.sdel = @ \ {u}]
    /\ UNCHANGED <<edges, lock, history, now, calcVars, schedVars>>

\* MatchingViewSet.start: the entry carries user_pk and no edge_calculated key
\* (read as False by the Edge Calculator)
start(u) ==
    /\ u \in PkUsers
    /\ regs < MaxRegs
    /\ status[u] = NOT_STARTED
    /\ queue' = [queue EXCEPT ![u] = NewEntry(now)]
    /\ status' = [status EXCEPT ![u] = IN_QUEUE]
    /\ regs' = regs + 1
    /\ ghost' = [ghost EXCEPT !.sdel = @ \ {u}]
    /\ UNCHANGED <<edges, lock, history, now, calcVars, schedVars>>

\* MatchingService.cancel_matching / MatchingViewSet.cancel, status IN_QUEUE:
\* the queue key is deleted and the row goes back to NOT_STARTED
cancel_matching(u) ==
    /\ status[u] = IN_QUEUE
    /\ queue' = [queue EXCEPT ![u] = NoEntry]
    /\ status' = [status EXCEPT ![u] = NOT_STARTED]
    /\ UNCHANGED <<edges, lock, history, now, regs, calcVars, schedVars, ghost>>

\* time passes
Tick ==
    /\ now + TickHours <= MaxNow
    /\ now' = now + TickHours
    /\ UNCHANGED <<cacheVars, dbVars, regs, calcVars, schedVars, ghost>>

\* ---------------------------------------------------------------- scheduler
MyToken(i) == LockToken(i, loc[i].cycles)

\* the edge stored under key p, as json.loads returns it (plus _key)
EdgeAt(p) == [a |-> p[1], b |-> p[2], score |-> edges[p].score]

\* edge['user_a_id'] / edge['user_b_id'] exist only in edges between UUIDs
EdgeHasIds(e) == e.a \in IdUsers /\ e.b \in IdUsers
\* a filter that keeps every edge
ValidEdgeAll(e, users) == TRUE

ValidEdge(e, users) == Present(users[e.a]) /\ Present(users[e.b])

\* leave the iteration for the finally clause with the statements of the
\* transaction still pending
ToReleaseOpen(i) ==
    /\ pc' = [pc EXCEPT ![i] = "release"]
    /\ txn' = txn

\* leave the iteration for the finally clause; conn.close() drops the
\* statements that were not committed
ToRelease(i) ==
    /\ pc' = [pc EXCEPT ![i] = "release"]
    /\ txn' = [txn EXCEPT ![i] = TxnInit]

\* the exception that run_scheduler catches and logs
Raised(i, kind) == log' = [log EXCEPT ![i].err = kind]

\* the pairs of queued users the Edge Calculator has processed, of equal
\* gender, whose edge reaches the threshold and is the only edge in the cache
ReadyPairs(q, es) ==
    {p \in Pairs :
        /\ Present(q[p[1]]) /\ Present(q[p[2]])
        /\ q[p[1]].edge_calculated /\ q[p[2]].edge_calculated
        /\ Gender(p[1]) = Gender(p[2])
        /\ es[p] # NoEdge
        /\ es[p].score >= MATCH_THRESHOLD
        /\ \A o \in Pairs \ {p} : es[o] = NoEdge}

\* the queue is two entries of different gender with priority 0, both
\* processed by the Edge Calculator, and the cache holds no edge
MixedOnly(q, es) ==
    /\ \E a, b \in Users :
         /\ PresentUsers(q) = {a, b}
         /\ Gender(a) # Gender(b)
         /\ q[a].priority = 0 /\ q[b].priority = 0
         /\ q[a].edge_calculated /\ q[b].edge_calculated
    /\ \A p \in Pairs : es[p] = NoEdge

\* the cycle of instance i writes to the cache or to the DB
Wrote(i) == ghost' = [ghost EXCEPT !.lastMut = log[i].rank, !.wrote = @ \cup {log[i].rank}]

\* a SET without NX
SetAlways(l, token) == token

\* SET key token NX EX: the value of the lock key after the call
SetNX(l, token) == IF l = NoLock THEN token ELSE l

\* run_scheduler: lock_value = uuid4(); acquire_lock = SET lock NX EX.
\* A failed acquire sleeps and continues through the finally clause.
acquire_lock(i) ==
    /\ pc[i] = "sleep"
    /\ loc[i].cycles < MaxCycles
    /\ ghost.acq < MaxCycles
    /\ loc' = [loc EXCEPT ![i] = [LocInit EXCEPT !.cycles = loc[i].cycles + 1]]
    /\ LET token == LockToken(i, loc[i].cycles + 1) IN
       /\ lock' = SetNX(lock, token)
       /\ IF SetNX(lock, token) = token
          THEN /\ pc' = [pc EXCEPT ![i] = "snap_edges"]
               /\ ghost' = [ghost EXCEPT !.acq = @ + 1]
               /\ log' = [log EXCEPT ![i] = [LogInit EXCEPT
                                 !.rank = ghost.acq + 1,
                                 !.ready = ReadyPairs(queue, edges),
                                 !.mixed = MixedOnly(queue, edges)]]
          ELSE /\ pc' = [pc EXCEPT ![i] = "release"]
               /\ UNCHANGED <<ghost, log>>
    /\ UNCHANGED <<queue, edges, dbVars, now, regs, calcVars, txn>>

\* get_all_edges_and_users, first half: KEYS match:edge:* and MGET
SnapEdges(i) ==
    /\ pc[i] = "snap_edges"
    /\ \E q \in SeqsOf({p \in Pairs : edges[p] # NoEdge}) :
         loc' = [loc EXCEPT ![i].edges = [j \in DOMAIN q |-> EdgeAt(q[j])]]
    /\ pc' = [pc EXCEPT ![i] = "snap_users"]
    /\ UNCHANGED <<cacheVars, dbVars, now, regs, calcVars, txn, log, ghost>>

\* run_matching_cycle returns without an error
Completed(i) == log' = [log EXCEPT ![i].completed = TRUE]

\* get_all_edges_and_users, second half: KEYS match:user-queue:* and MGET;
\* users[user_data['user_id']] raises KeyError on an entry without user_id.
\* Then run_matching_cycle up to its first network call.
SnapUsers(i) ==
    /\ pc[i] = "snap_users"
    /\ IF \E u \in PresentUsers(queue) : ~HasUserId(u)
       THEN ToRelease(i) /\ Raised(i, "KeyError") /\ loc' = loc
       ELSE /\ loc' = [loc EXCEPT ![i].users = queue, ![i].idx = 1]
            /\ txn' = txn
            /\ IF PresentUsers(queue) = {}
               THEN pc' = [pc EXCEPT ![i] = "release"] /\ Completed(i)
               ELSE /\ pc' = [pc EXCEPT ![i] =
                         IF loc[i].edges = <<>> THEN "exp_keys" ELSE "cleanup"]
                    /\ log' = log
    /\ UNCHANGED <<cacheVars, dbVars, now, regs, calcVars, ghost>>

\* first edge at or after idx that cleanup_orphan_edges does not just keep
NextStop(i) ==
    LET es == loc[i].edges
        S == {j \in loc[i].idx..Len(es) :
                ~EdgeHasIds(es[j]) \/ ~ValidEdge(es[j], loc[i].users)}
    IN IF S = {} THEN 0 ELSE CHOOSE j \in S : \A k \in S : j <= k

\* cleanup_orphan_edges: r.delete of the next orphan edge, or KeyError on an
\* edge without user_a_id; at the end of the list, find_matching_pairs
cleanup_orphan_edges(i) ==
    /\ pc[i] = "cleanup"
    /\ LET es == loc[i].edges
           j == NextStop(i)
       IN IF j = 0
          THEN LET valid_edges == SelectSeq(es, LAMBDA e : ValidEdge(e, loc[i].users))
                   matched_pairs == find_matching_pairs(valid_edges, loc[i].users, MATCH_THRESHOLD)
               IN /\ loc' = [loc EXCEPT ![i].pairs = matched_pairs]
                  /\ pc' = [pc EXCEPT ![i] =
                       IF matched_pairs = <<>> THEN "exp_keys" ELSE "pair_insert"]
                  /\ UNCHANGED <<edges, txn, log, ghost>>
          ELSE IF ~EdgeHasIds(es[j])
          THEN ToRelease(i) /\ Raised(i, "KeyError") /\ UNCHANGED <<edges, loc, ghost>>
          ELSE /\ edges' = [edges EXCEPT ![<<es[j].a, es[j].b>>] = NoEdge]
               /\ loc' = [loc EXCEPT ![i].idx = j + 1]
               /\ Wrote(i)
               /\ UNCHANGED <<pc, txn, log>>
    /\ UNCHANGED <<queue, lock, dbVars, now, regs, calcVars>>

\* EmailNotifier.enabled: EMAIL_ENABLED and the two AWS keys are set
NotifierEnabled == TRUE

\* account_customuser.email of the user is not empty
HasEmail(u) == TRUE

\* the methods class EmailNotifier defines for the Scheduler to call
EmailNotifierMethods == {"notify_matched"}

\* the notifications handed over when the Scheduler calls notifier.<method>
\* for the rows of S that have an email; a method the class does not have
\* raises AttributeError at the first call, which the caller logs
Notified(method, event, S) ==
    IF NotifierEnabled /\ method \in EmailNotifierMethods
    THEN {<<u, event>> : u \in {x \in S : HasEmail(x)}}
    ELSE {}

AfterPair(i) == IF Len(loc[i].pairs) > 1 THEN "pair_insert" ELSE "commit"

\* a statement of the pair raised: logged, continue with the next pair
PairFailed(i) ==
    /\ log' = [log EXCEPT ![i].failed = @ \cup {<<Head(loc[i].pairs).a, Head(loc[i].pairs).b>>}]
    /\ loc' = [loc EXCEPT ![i].pairs = Tail(@)]
    /\ pc' = [pc EXCEPT ![i] = AfterPair(i)]

\* process_matched_pairs: a pair with an endpoint missing from users is
\* skipped; otherwise INSERT INTO match_history
PairInsert(i) ==
    /\ pc[i] = "pair_insert"
    /\ LET e == Head(loc[i].pairs) IN
       IF ~Present(loc[i].users[e.a]) \/ ~Present(loc[i].users[e.b])
       THEN /\ loc' = [loc EXCEPT ![i].pairs = Tail(@)]
            /\ pc' = [pc EXCEPT ![i] = AfterPair(i)]
            /\ UNCHANGED <<txn, log>>
       ELSE \/ /\ txn' = [txn EXCEPT ![i].rows = @ \cup {<<e.a, e.b>>}]
               /\ pc' = [pc EXCEPT ![i] = "pair_update"]
               /\ UNCHANGED <<loc, log>>
            \/ PairFailed(i) /\ txn' = txn
    /\ UNCHANGED <<cacheVars, dbVars, now, regs, calcVars, ghost>>

\* process_matched_pairs: the UPDATE of pair e went through, on to the deletes
PairUpdated(i, e) ==
    /\ txn' = [txn EXCEPT ![i].upd = @ \cup {e.a, e.b}]
    /\ pc' = [pc EXCEPT ![i] = "pair_del_a"]
    /\ loc' = loc

\* _send_match_notifications without its try / except: the error reaches the
\* except of process_matched_pairs, which goes on with the next pair
NotifyRaised(i, e) ==
    /\ txn' = [txn EXCEPT ![i].upd = @ \cup {e.a, e.b}]
    /\ loc' = [loc EXCEPT ![i].pairs = Tail(@)]
    /\ pc' = [pc EXCEPT ![i] = AfterPair(i)]
    /\ log' = [log EXCEPT ![i].nfail = @ \cup {<<e.a, e.b>>},
                          ![i].failed = @ \cup {<<e.a, e.b>>}]

\* _send_match_notifications: its SELECT or a notify_matched call raised;
\* the except clause logs the error and returns
NotifyFailed(i, e) ==
    /\ PairUpdated(i, e)
    /\ log' = [log EXCEPT ![i].nfail = @ \cup {<<e.a, e.b>>}]

\* process_matched_pairs: UPDATE match_properties SET match_status = 2,
\* then _send_match_notifications: notify_matched for both users, or nothing
\* when its SELECT raises (it catches its own errors)
PairUpdate(i) ==
    /\ pc[i] = "pair_update"
    /\ LET e == Head(loc[i].pairs) IN
       \/ /\ PairUpdated(i, e)
          /\ log' = [log EXCEPT ![i].sent =
                        @ \cup Notified("notify_matched", "matched", {e.a, e.b})]
       \/ NotifyFailed(i, e)
       \/ PairFailed(i) /\ txn' = txn
    /\ UNCHANGED <<cacheVars, dbVars, now, regs, calcVars, ghost>>

\* r.delete of a queue key by the Scheduler, noted in the iteration's log
Evict(i, u, why) ==
    /\ queue' = [queue EXCEPT ![u] = NoEntry]
    /\ log' = [log EXCEPT ![i].evicted =
                 IF Present(queue[u]) THEN @ \cup {<<u, why>>} ELSE @]
    /\ ghost' = [ghost EXCEPT !.lastMut = log[i].rank,
                              !.wrote = @ \cup {log[i].rank},
                              !.sdel = IF Present(queue[u]) THEN @ \cup {u} ELSE @]

\* process_matched_pairs: r.delete(match:user-queue:<user_a_id>)
PairDelA(i) ==
    /\ pc[i] = "pair_del_a"
    /\ Evict(i, Head(loc[i].pairs).a, "paired")
    /\ pc' = [pc EXCEPT ![i] = "pair_del_b"]
    /\ UNCHANGED <<edges, lock, dbVars, now, regs, calcVars, loc, txn>>

\* process_matched_pairs: r.delete(match:user-queue:<user_b_id>)
PairDelB(i) ==
    /\ pc[i] = "pair_del_b"
    /\ Evict(i, Head(loc[i].pairs).b, "paired")
    /\ loc' = [loc EXCEPT ![i].pairs = Tail(@)]
    /\ pc' = [pc EXCEPT ![i] = AfterPair(i)]
    /\ UNCHANGED <<edges, lock, dbVars, now, regs, calcVars, txn>>

\* process_matched_pairs: conn.commit() after the loop.  A commit that raises
\* leaves run_matching_cycle; conn.close() rolls the statements back.
Commit(i) ==
    /\ pc[i] = "commit"
    /\ \/ /\ history' = [p \in Pairs |-> IF p \in txn[i].rows THEN history[p] + 1 ELSE history[p]]
          /\ status' = [u \in Users |-> IF u \in txn[i].upd THEN MATCHED ELSE status[u]]
          /\ log' = [log EXCEPT ![i].rows = @ \cup txn[i].rows,
                                ![i].st = @ \cup {<<u, MATCHED>> : u \in txn[i].upd}]
          /\ txn' = [txn EXCEPT ![i] = TxnInit]
          /\ pc' = [pc EXCEPT ![i] = "exp_keys"]
          /\ IF txn[i] = TxnInit THEN ghost' = ghost ELSE Wrote(i)
       \/ ToRelease(i) /\ Raised(i, "DbError") /\ UNCHANGED <<dbVars, ghost>>
    /\ UNCHANGED <<cacheVars, now, regs, calcVars, loc>>

Expired(entry, t) == t - entry.registered_at > EXPIRE_HOURS

ExpNext(keys, expired) ==
    IF keys # {} THEN "exp_get" ELSE IF expired # {} THEN "exp_update" ELSE "inc_keys"
IncNext(keys) == IF keys # {} THEN "inc_get" ELSE "release"
\* increment_priorities returns when no key is left, and with it
\* run_matching_cycle
IncDone(i, keys) == log' = [log EXCEPT ![i].completed = (keys = {})]

\* remove_expired_users: now = datetime.now(); KEYS match:user-queue:*
ExpKeys(i) ==
    /\ pc[i] = "exp_keys"
    /\ loc' = [loc EXCEPT ![i].now = now, ![i].keys = PresentUsers(queue), ![i].expired = {}]
    /\ pc' = [pc EXCEPT ![i] = ExpNext(PresentUsers(queue), {})]
    /\ UNCHANGED <<cacheVars, dbVars, now, regs, calcVars, txn, log, ghost>>

\* remove_expired_users: GET of one key and the test of its registered_at;
\* (user_id, property_id) is collected only when the entry has a user_id
ExpGet(i) ==
    /\ pc[i] = "exp_get"
    /\ \E u \in loc[i].keys :
         IF Present(queue[u]) /\ Expired(queue[u], loc[i].now)
         THEN /\ loc' = [loc EXCEPT ![i].cur = u,
                                    ![i].expired = IF HasUserId(u) THEN @ \cup {u} ELSE @]
              /\ pc' = [pc EXCEPT ![i] = "exp_del"]
         ELSE /\ loc' = [loc EXCEPT ![i].keys = @ \ {u}]
              /\ pc' = [pc EXCEPT ![i] = ExpNext(loc[i].keys \ {u}, loc[i].expired)]
    /\ UNCHANGED <<cacheVars, dbVars, now, regs, calcVars, txn, log, ghost>>

\* remove_expired_users: r.delete(key) of the expired entry
ExpDel(i) ==
    /\ pc[i] = "exp_del"
    /\ Evict(i, loc[i].cur, "expired")
    /\ loc' = [loc EXCEPT ![i].keys = @ \ {loc[i].cur}, ![i].cur = 0]
    /\ pc' = [pc EXCEPT ![i] = ExpNext(loc[i].keys \ {loc[i].cur}, loc[i].expired)]
    /\ UNCHANGED <<edges, lock, dbVars, now, regs, calcVars, txn>>

\* remove_expired_users: UPDATE match_properties SET match_status = 9 and
\* conn.commit(), then _send_expired_notifications for the users updated;
\* an error of the UPDATE is logged and rolled back
ExpUpdate(i) ==
    /\ pc[i] = "exp_update"
    /\ \/ /\ status' = [u \in Users |-> IF u \in loc[i].expired THEN EXPIRED ELSE status[u]]
          /\ log' = [log EXCEPT
                 ![i].st = @ \cup {<<u, EXPIRED>> : u \in loc[i].expired},
                 ![i].sent = @ \cup Notified("notify_expired", "expired", loc[i].expired)]
          /\ Wrote(i)
       \/ UNCHANGED <<status, log, ghost>>
    /\ loc' = [loc EXCEPT ![i].expired = {}]
    /\ pc' = [pc EXCEPT ![i] = "inc_keys"]
    /\ UNCHANGED <<cacheVars, history, now, regs, calcVars, txn>>

\* increment_priorities: KEYS match:user-queue:*
IncKeys(i) ==
    /\ pc[i] = "inc_keys"
    /\ loc' = [loc EXCEPT ![i].keys = PresentUsers(queue)]
    /\ pc' = [pc EXCEPT ![i] = IncNext(PresentUsers(queue))]
    /\ IncDone(i, PresentUsers(queue))
    /\ UNCHANGED <<cacheVars, dbVars, now, regs, calcVars, txn, ghost>>

\* increment_priorities: GET of one key
IncGet(i) ==
    /\ pc[i] = "inc_get"
    /\ \E u \in loc[i].keys :
         IF Present(queue[u])
         THEN /\ loc' = [loc EXCEPT ![i].cur = u, ![i].data = queue[u]]
              /\ pc' = [pc EXCEPT ![i] = "inc_set"]
              /\ log' = log
         ELSE /\ loc' = [loc EXCEPT ![i].keys = @ \ {u}]
              /\ pc' = [pc EXCEPT ![i] = IncNext(loc[i].keys \ {u})]
              /\ IncDone(i, loc[i].keys \ {u})
    /\ UNCHANGED <<cacheVars, dbVars, now, regs, calcVars, txn, ghost>>

\* an aging that writes the entry back as it read it
IncrementedNot(user_data) == user_data

\* the value increment_priorities writes back for the entry it read
Incremented(user_data) == [user_data EXCEPT !.priority = @ + 1]

\* increment_priorities: SET of the entry read, priority + 1
IncSet(i) ==
    /\ pc[i] = "inc_set"
    /\ queue' = [queue EXCEPT ![loc[i].cur] = Incremented(loc[i].data)]
    /\ loc' = [loc EXCEPT ![i].keys = @ \ {loc[i].cur}, ![i].cur = 0, ![i].data = NoEntry]
    /\ pc' = [pc EXCEPT ![i] = IncNext(loc[i].keys \ {loc[i].cur})]
    /\ IncDone(i, loc[i].keys \ {loc[i].cur})
    /\ Wrote(i)
    /\ UNCHANGED <<edges, lock, dbVars, now, regs, calcVars, txn>>

\* a release that deletes the key whatever it holds
UnlockedAny(l, token) == NoLock

\* UNLOCK_SCRIPT: delete the lock key if it holds the caller's token
Unlocked(l, token) == IF l = token THEN NoLock ELSE l

\* UNLOCK_SCRIPT: what the script returns, the number of keys DEL removed or 0
UnlockResult(l, token) == IF l = token THEN 1 ELSE 0

\* run_scheduler without the finally clause: the iteration goes to its sleep
\* and the lock key is left to its TTL
release_lock_skipped(i) ==
    /\ pc[i] = "release"
    /\ lock' = lock
    /\ pc' = [pc EXCEPT ![i] = "sleep"]
    /\ loc' = [loc EXCEPT ![i] = [LocInit EXCEPT !.cycles = loc[i].cycles]]
    /\ log' = [log EXCEPT ![i] = LogInit]
    /\ UNCHANGED <<queue, edges, dbVars, now, regs, calcVars, txn, ghost>>

\* run_scheduler, finally: release_lock(r, lock_value)
release_lock(i) ==
    /\ pc[i] = "release"
    /\ lock' = Unlocked(lock, MyToken(i))
    /\ pc' = [pc EXCEPT ![i] = "sleep"]
    /\ loc' = [loc EXCEPT ![i] = [LocInit EXCEPT !.cycles = loc[i].cycles,
                                              !.unlocked = UnlockResult(lock, MyToken(i))]]
    /\ log' = [log EXCEPT ![i] = LogInit]
    /\ UNCHANGED <<queue, edges, dbVars, now, regs, calcVars, txn, ghost>>

\* positions whose next step is a Redis call
RedisPcs == {"snap_edges", "snap_users", "pair_del_a", "pair_del_b",
             "exp_keys", "exp_get", "exp_del", "inc_keys", "inc_get", "inc_set"}

\* a Redis call of the cycle raises redis.RedisError: run_matching_cycle is
\* left, conn.close() rolls back, the finally clause releases
SchedRedisError(i) ==
    /\ \/ pc[i] \in RedisPcs
       \/ pc[i] = "cleanup" /\ NextStop(i) # 0 /\ EdgeHasIds(loc[i].edges[NextStop(i)])
    /\ ToRelease(i)
    /\ Raised(i, "RedisError")
    /\ UNCHANGED <<cacheVars, dbVars, now, regs, calcVars, loc, ghost>>

\* a lock key written by SET NX without EX: it has no TTL
HasTTLNever(l) == FALSE

\* acquire_lock writes the key with ex=LOCK_EXPIRE: every lock key has a TTL
HasTTL(l) == l # NoLock

\* the lock key's TTL (LOCK_EXPIRE) runs out
LockExpire ==
    /\ HasTTL(lock)
    /\ lock' = NoLock
    /\ ghost' = [ghost EXCEPT !.ttl = TRUE]
    /\ UNCHANGED <<queue, edges, dbVars, now, regs, calcVars, schedVars>>

Sched(i) ==
    \/ acquire_lock(i) \/ SnapEdges(i) \/ SnapUsers(i) \/ cleanup_orphan_edges(i)
    \/ PairInsert(i) \/ PairUpdate(i) \/ PairDelA(i) \/ PairDelB(i) \/ Commit(i)
    \/ ExpKeys(i) \/ ExpGet(i) \/ ExpDel(i) \/ ExpUpdate(i)
    \/ IncKeys(i) \/ IncGet(i) \/ IncSet(i) \/ release_lock(i) \/ SchedRedisError(i)

Producer == \E u \in Users : start_matching(u) \/ start(u) \/ cancel_matching(u)


\* ----------------------------------------------------------- edge calculator
\* get_new_users: the entries without edge_calculated, sorted by registered_at
\* (entries with equal registered_at keep the order KEYS gave them)
NewOrders(q) ==
    {s \in SeqsOf({u \in PresentUsers(q) : ~q[u].edge_calculated}) :
        \A j, k \in DOMAIN s : j < k => q[s[j]].registered_at <= q[s[k]].registered_at}

\* get_calculated_users
get_calculated_users(q) == {u \in PresentUsers(q) : q[u].edge_calculated}

\* the existing users process_new_user writes an edge for
EdgeTargets(new_user, calculated_users) ==
    {v \in calculated_users :
        v # new_user /\ check_hard_filter(Profile(new_user), Profile(v))}

\* save_edge without the min / max of the two keys
EdgeKeyAsGiven(a, b) == <<a, b>>

EdgeKey(a, b) == <<Min(a, b), Max(a, b)>>

\* save_edge: the SET it sends, key match:edge:<min_pk>:<max_pk> and value
\* {user_a_pk, user_b_pk, score} (created_at is left out)
EdgeSet(user_a, user_b, score) ==
    LET k == EdgeKey(user_a.user_pk, user_b.user_pk)
    IN [key |-> k, data |-> [user_a_pk |-> k[1], user_b_pk |-> k[2], score |-> score]]

\* the pass stops: back to the sleep of run_polling
CalcIdle ==
    /\ cpc' = "idle"
    /\ cloc' = CLocInit

\* process_new_user for the first of the users in new: user_pk = new_user['user_pk']
\* raises KeyError on an entry without user_pk, which ends the pass
CalcBegin(new, calculated_users) ==
    IF new = <<>> \/ ~HasUserPk(Head(new))
    THEN CalcIdle
    ELSE /\ cloc' = [new |-> new, calc |-> calculated_users,
                     todo |-> EdgeTargets(Head(new), calculated_users), fresh |-> NoEntry]
         /\ cpc' = IF EdgeTargets(Head(new), calculated_users) = {} THEN "mark_get" ELSE "edges"

\* run_polling: get_all_queue_users, get_new_users, get_calculated_users
CalcPoll ==
    /\ cpc = "idle"
    /\ \E new \in NewOrders(queue) :
         /\ new # <<>>
         /\ HasUserPk(Head(new))
         /\ CalcBegin(new, get_calculated_users(queue))
    /\ UNCHANGED <<cacheVars, dbVars, now, regs, schedVars, ghost>>

\* the edge record save_edge writes under match:edge:<min_pk>:<max_pk>
SavedEdge(a, b) == [score |-> calculate_final_score(Profile(a), Profile(b))]

\* process_new_user: save_edge for one existing user that passes the hard filter
save_edge ==
    /\ cpc = "edges"
    /\ \E v \in cloc.todo :
         LET u == Head(cloc.new) IN
         IF ~HasUserPk(v)
         THEN CalcIdle /\ edges' = edges
         ELSE /\ edges' = [edges EXCEPT ![EdgeKey(u, v)] = SavedEdge(u, v)]
              /\ cloc' = [cloc EXCEPT !.todo = @ \ {v}]
              /\ cpc' = IF cloc.todo \ {v} = {} THEN "mark_get" ELSE "edges"
    /\ UNCHANGED <<queue, lock, dbVars, now, regs, schedVars, ghost>>

\* run_polling: calculated_users.append(new_user), then the next new user
CalcFinishUser ==
    CalcBegin(Tail(cloc.new), cloc.calc \cup {Head(cloc.new)})

\* mark_as_calculated: current_data = r.get(redis_key)
MarkGet ==
    /\ cpc = "mark_get"
    /\ LET u == Head(cloc.new) IN
       IF Present(queue[u])
       THEN /\ cloc' = [cloc EXCEPT !.fresh = queue[u]]
            /\ cpc' = "mark_set"
       ELSE CalcFinishUser
    /\ UNCHANGED <<cacheVars, dbVars, now, regs, schedVars, ghost>>

\* the value mark_as_calculated writes back for the entry it read
Marked(fresh_data) == [fresh_data EXCEPT !.edge_calculated = TRUE]

\* mark_as_calculated: r.set(redis_key, fresh_data with edge_calculated = True)
MarkSet ==
    /\ cpc = "mark_set"
    /\ queue' = [queue EXCEPT ![Head(cloc.new)] = Marked(cloc.fresh)]
    /\ CalcFinishUser
    /\ UNCHANGED <<edges, lock, dbVars, now, regs, schedVars, ghost>>

\* a Redis call of the pass raises redis.RedisError: logged, sleep, next pass
CalcRedisError ==
    /\ cpc # "idle"
    /\ CalcIdle
    /\ UNCHANGED <<cacheVars, dbVars, now, regs, schedVars, ghost>>

Calc == CalcPoll \/ save_edge \/ MarkGet \/ MarkSet \/ CalcRedisError

\* ------------------------------------------------------------ specifications
\* producers, Edge Calculator and one Scheduler instance
Next == Producer \/ Tick \/ Calc \/ Sched(1)
Spec == Init /\ [][Next]_vars

\* two Scheduler instances contending for the lock key, whose TTL may run out,
\* from the state where user 1 registered at time 0 and user 2 at MaxNow and
\* the cache holds an edge between them that reaches the threshold
QueueLock ==
    [u \in Users |-> IF u = 1 THEN NewEntry(0)
                     ELSE IF u = 2 THEN NewEntry(MaxNow) ELSE NoEntry]
InitLock ==
    /\ InitWith({<<1, 2>>}, QueueLock, MaxNow, Idle)
    /\ edges[<<1, 2>>] \in [score : {x \in InitScores : x >= MATCH_THRESHOLD}]
NextLock == LockExpire \/ \E i \in Insts : Sched(i)
SpecLock == InitLock /\ [][NextLock]_vars

\* the same two instances, each of which may be killed at any point of an
\* iteration (its connection is dropped and it never runs again); Redis
\* removes a key whose TTL has run out
Crash(i) ==
    /\ pc[i] \notin {"sleep", "crashed"}
    /\ pc' = [pc EXCEPT ![i] = "crashed"]
    /\ txn' = [txn EXCEPT ![i] = TxnInit]
    /\ loc' = [loc EXCEPT ![i] = [LocInit EXCEPT !.cycles = loc[i].cycles]]
    /\ log' = [log EXCEPT ![i] = LogInit]
    /\ UNCHANGED <<cacheVars, dbVars, now, regs, calcVars, ghost>>
NextCrash == LockExpire \/ \E i \in Insts : Sched(i) \/ Crash(i)
SpecCrash ==
    /\ InitLock
    /\ [][NextCrash]_vars
    /\ WF_vars(LockExpire)

\* find_matching_pairs on its own: every list of at most MaxEdges edges
\* between the ids PairIds (which the function only compares), every score
\* around the threshold, every priority in 0..1
PairIds == 1..4
PairScores == {7500, 8000, 9000}
PairKeys == {p \in PairIds \X PairIds : p[1] < p[2]}
DistinctKeys(n) == {ks \in [1..n -> PairKeys] : \A j, k \in 1..n : j # k => ks[j] # ks[k]}
PairEdges ==
    UNION {{[j \in 1..n |-> [a |-> ks[j][1], b |-> ks[j][2], score |-> sc[j]]] :
              ks \in DistinctKeys(n), sc \in [1..n -> PairScores]} : n \in 0..MaxEdges}
PairQueues == {q \in [Users -> {NoEntry} \cup {[NewEntry(0) EXCEPT !.priority = p] : p \in 0..1}] :
                 \A u \in Users : Present(q[u]) <=> u \in PairIds}
InitPairs ==
    \E es \in PairEdges, q \in PairQueues :
        InitWith({}, EmptyQueue, 0, [Idle EXCEPT ![1].edges = es, ![1].users = q])
Select ==
    /\ pc[1] = "sleep"
    /\ loc' = [loc EXCEPT ![1].pairs =
                 find_matching_pairs(loc[1].edges, loc[1].users, MATCH_THRESHOLD)]
    /\ pc' = [pc EXCEPT ![1] = "selected"]
    /\ UNCHANGED <<cacheVars, dbVars, now, regs, calcVars, txn, log, ghost>>
NextPairs == Select
SpecPairs == InitPairs /\ [][NextPairs]_vars

\* find_matching_pairs on the one edge between two queued users after any
\* number of increment_priorities rounds: the edge scores below or at the
\* threshold, each priority is anything in 0..MaxPriority
MaxPriority == 21
AgedScores == {7000, MATCH_THRESHOLD}
AgedQueues ==
    {[u \in Users |-> IF u \in {1, 2}
                      THEN [NewEntry(0) EXCEPT !.priority = pr[u]]
                      ELSE NoEntry] : pr \in [{1, 2} -> 0..MaxPriority]}
InitAged ==
    \E s \in AgedScores, q \in AgedQueues :
        InitWith({}, EmptyQueue, 0,
                 [Idle EXCEPT ![1].edges = <<[a |-> 1, b |-> 2, score |-> s]>>,
                              ![1].users = q])
SpecAged == InitAged /\ [][NextPairs]_vars

\* calculate_final_score and save_edge on their own, as process_new_user
\* calls them for two entries, in both orders of the two.  The entries carry
\* different user_pk; dormitory, fridge and fridge preference vary, the
\* survey answers are equal, one or three apart, or at the two ends of the
\* scale on every key, and every weight is 0 (the weight_total == 0 case of
\* _calculate_one_direction), 0.5 or 1.5.
ScoreBasics ==
    {[Basic(4) EXCEPT !.dorm_building = d, !.has_fridge = f, !.mate_fridge = m] :
        d \in {"G", "I"}, f \in BOOLEAN, m \in 0..2}
ScoreSurveys ==
    {[SurveyOf(4) EXCEPT !["clean_1"] = x] : x \in {1, 4}}
      \cup {[k \in SurveyKeys |-> x] : x \in {1, 5}}
ScoreWeights == [SurveyKeys -> {0, 1, 3}]
ScoreEntries ==
    {[user_pk |-> u, basic |-> b, survey |-> sv, weights |-> w] :
        u \in {4, 5}, b \in ScoreBasics, sv \in ScoreSurveys, w \in ScoreWeights}
InitScore ==
    /\ queue = EmptyQueue
    /\ edges = [p \in Pairs |-> NoEdge]
    /\ lock = NoLock
    /\ status = [u \in Users |-> NOT_STARTED]
    /\ history = [p \in Pairs |-> 0]
    /\ now = 0
    /\ regs = 0
    /\ cpc = "idle"
    /\ \E user_a, user_b \in ScoreEntries :
         /\ user_a.user_pk # user_b.user_pk
         /\ cloc = [user_a |-> user_a, user_b |-> user_b, ab |-> NoEdge, ba |-> NoEdge]
    /\ pc = [i \in Insts |-> "sleep"]
    /\ loc = Idle
    /\ txn = [i \in Insts |-> TxnInit]
    /\ log = [i \in Insts |-> LogInit]
    /\ ghost = GhostInit
Score ==
    /\ cpc = "idle"
    /\ cpc' = "scored"
    /\ cloc' = [cloc EXCEPT
         !.ab = EdgeSet(cloc.user_a, cloc.user_b,
                        calculate_final_score(cloc.user_a, cloc.user_b)),
         !.ba = EdgeSet(cloc.user_b, cloc.user_a,
                        calculate_final_score(cloc.user_b, cloc.user_a))]
    /\ UNCHANGED <<cacheVars, dbVars, now, regs, schedVars, ghost>>
NextScore == Score
SpecScore == InitScore /\ [][NextScore]_vars

\* Edge Calculator, one Scheduler instance and the producer of user_pk
\* entries, from the state where user 1 has just registered at MaxNow and the
\* cache holds no edge.  No entry can expire and no edge between UUIDs can
\* exist, so the steps of process_matched_pairs and the deletes and updates
\* of remove_expired_users are never enabled (NoPairNoExpiry) and are left
\* out of the next-state relation.
QueueNew == [u \in Users |-> IF u = 1 THEN NewEntry(MaxNow) ELSE NoEntry]
InitAging == InitWith({}, QueueNew, MaxNow, Idle)
ProducerPk == \E u \in PkUsers : start(u) \/ cancel_matching(u)
SchedAging(i) ==
    \/ acquire_lock(i) \/ SnapEdges(i) \/ SnapUsers(i) \/ cleanup_orphan_edges(i)
    \/ ExpKeys(i) \/ ExpGet(i) \/ IncKeys(i) \/ IncGet(i) \/ IncSet(i)
    \/ release_lock(i) \/ SchedRedisError(i)
NextAging == ProducerPk \/ Calc \/ SchedAging(1)
SpecAging == InitAging /\ [][NextAging]_vars

\* the same, with the loop of run_polling running for ever (a pass starts
\* whenever it has a new user to process) and Redis errors that do not go on
\* for ever: each step of a pass that can be taken again and again is taken
SpecPolling ==
    /\ InitAging
    /\ [][NextAging]_vars
    /\ WF_vars(CalcPoll)
    /\ SF_vars(save_edge) /\ SF_vars(MarkGet) /\ SF_vars(MarkSet)
NoPairNoExpiry ==
    \A i \in Insts :
        pc[i] \notin {"pair_insert", "pair_update", "pair_del_a", "pair_del_b",
                      "commit", "exp_del", "exp_update"}

\* ------------------------------------------------------------------ claims
\* C1: when a cycle ends, every queue entry it deleted has exactly one
\* committed effect of that cycle: a match_history row naming the user with
\* its property row set to 2 (paired), or its property row set to 9 (expired)
C1_Conservation ==
    \A i \in Insts : pc[i] = "release" =>
        \A ev \in log[i].evicted :
            IF ev[2] = "paired"
            THEN /\ Cardinality({p \in log[i].rows : ev[1] \in {p[1], p[2]}}) = 1
                 /\ <<ev[1], MATCHED>> \in log[i].st
            ELSE <<ev[1], EXPIRED>> \in log[i].st

\* C2: no user appears in more than one of the pairs find_matching_pairs
\* returned and process_matched_pairs is working through
C2_Exclusivity ==
    \A i \in Insts : \A j, k \in DOMAIN loc[i].pairs :
        j # k => {loc[i].pairs[j].a, loc[i].pairs[j].b}
                   \cap {loc[i].pairs[k].a, loc[i].pairs[k].b} = {}

\* two pairs were selected and an edge that reaches the threshold was left
\* out because one of its users was already paired
C2_Witness ==
    /\ pc[1] = "selected"
    /\ Len(loc[1].pairs) = 2
    /\ \E j \in DOMAIN loc[1].edges :
         /\ Admitted(loc[1].edges[j], MATCH_THRESHOLD)
         /\ \A k \in DOMAIN loc[1].pairs : loc[1].pairs[k] # loc[1].edges[j]

\* C3: when a cycle ends, a pair one of whose DB statements failed has no
\* committed history row, no committed status update, and kept both queue
\* entries
C3_FailedPairUntouched ==
    \A i \in Insts : pc[i] = "release" =>
        \A p \in log[i].failed :
            /\ p \notin log[i].rows
            /\ \A u \in {p[1], p[2]} :
                 /\ <<u, MATCHED>> \notin log[i].st
                 /\ <<u, "paired">> \notin log[i].evicted

\* C4: the cache and DB writes of the cycles happen in the order in which
\* the cycles acquired the lock
C4_CyclesInOrder == [][ghost'.lastMut >= ghost.lastMut]_vars

\* C4, amended: the same, as long as no lock key has run out of its TTL
\* before its holder released it
C4_CyclesInOrderNoExpiry ==
    [][~ghost'.ttl => ghost'.lastMut >= ghost.lastMut]_vars

\* the first and the second cycle both wrote, the second last, and no lock
\* ran out
C4_Witness == ~ghost.ttl /\ ghost.wrote = {1, 2} /\ ghost.lastMut = 2

\* C5: release_lock deletes the lock key and returns 1 when the key holds
\* the caller's token; otherwise it leaves the key as it is and returns 0
C5_ReleaseOwnLockOnly ==
    [][\A i \in Insts : (pc[i] = "release" /\ pc'[i] = "sleep") =>
          IF lock = MyToken(i)
          THEN lock' = NoLock /\ loc'[i].unlocked = 1
          ELSE lock' = lock /\ loc'[i].unlocked = 0]_vars

\* after a lock ran out, an instance got 'not owner' from its release while
\* the other instance holds the lock
C5_Witness ==
    \E i \in Insts :
        /\ pc[i] = "sleep"
        /\ loc[i].unlocked = 0
        /\ ghost.ttl
        /\ lock # NoLock
        /\ lock.owner # i

\* C6: a write of mark_as_calculated or increment_priorities to an existing
\* queue entry changes only the writer's own field of the value stored at
\* that moment: it sets edge_calculated and keeps the stored priority, or
\* adds one to the stored priority and keeps the stored edge_calculated
C6_NoLostUpdate ==
    [][\A u \in Users :
          (Present(queue[u]) /\ Present(queue'[u]) /\ regs' = regs /\ queue'[u] # queue[u])
            => \/ /\ queue'[u].edge_calculated
                  /\ queue'[u].priority = queue[u].priority
               \/ /\ queue'[u].edge_calculated = queue[u].edge_calculated
                  /\ queue'[u].priority = queue[u].priority + 1]_vars

\* C7: the priority stored in a queue entry never decreases while the entry
\* exists
C7_MonotonePriority ==
    [][\A u \in Users :
          (Present(queue[u]) /\ Present(queue'[u]) /\ regs' = regs)
            => queue'[u].priority >= queue[u].priority]_vars

\* C8: a queue entry the Scheduler deleted stays absent until the producer
\* registers the user again
C8_NoReCreation ==
    [][\A u \in ghost.sdel :
          (~Present(queue[u]) /\ Present(queue'[u])) => regs' # regs]_vars

\* C9: two queued users that both have edge_calculated = true differ in
\* gender or have an edge record under their canonical key
C9_EdgesOfCalculated ==
    \A a, b \in Users :
        (a < b /\ Present(queue[a]) /\ Present(queue[b])
           /\ queue[a].edge_calculated /\ queue[b].edge_calculated)
          => (Gender(a) # Gender(b) \/ edges[<<a, b>>] # NoEdge)

C11_OrphanGC ==
    \A i \in Insts : (pc[i] = "release" /\ log[i].completed) =>
        \A j \in DOMAIN loc[i].edges :
            LET e == loc[i].edges[j] IN
            IF Present(loc[i].users[e.a]) /\ Present(loc[i].users[e.b])
            THEN edges[<<e.a, e.b>>] # NoEdge
            ELSE edges[<<e.a, e.b>>] = NoEdge

\* C12: every pair find_matching_pairs returned, and so every pair
\* process_matched_pairs commits, has an edge score greater than or equal to
\* MATCH_THRESHOLD
C12_ThresholdAdmission ==
    \A i \in Insts : \A j \in DOMAIN loc[i].pairs :
        loc[i].pairs[j].score >= MATCH_THRESHOLD

\* an edge with exactly the threshold score was selected, and an edge below
\* the threshold between two users that stayed unpaired was not
C12_Witness ==
    /\ pc[1] = "selected"
    /\ \E k \in DOMAIN loc[1].pairs : loc[1].pairs[k].score = MATCH_THRESHOLD
    /\ \E j \in DOMAIN loc[1].edges :
         /\ loc[1].edges[j].score < MATCH_THRESHOLD
         /\ \A k \in DOMAIN loc[1].pairs :
              {loc[1].edges[j].a, loc[1].edges[j].b}
                \cap {loc[1].pairs[k].a, loc[1].pairs[k].b} = {}

\* C13: once the priorities of the two users of the only edge have both
\* grown to 20, find_matching_pairs selects the edge although its score is
\* below the threshold
C13_AgingEscape ==
    (/\ pc[1] = "selected"
     /\ Len(loc[1].edges) = 1
     /\ \A u \in {loc[1].edges[1].a, loc[1].edges[1].b} :
          /\ Present(loc[1].users[u])
          /\ loc[1].users[u].priority >= 20)
      => loc[1].pairs = loc[1].edges

\* C13, amended: whatever the priorities of its two users have grown to,
\* find_matching_pairs does not select the only edge while its score is
\* below the threshold
C13_NoBypass ==
    (/\ pc[1] = "selected"
     /\ Len(loc[1].edges) = 1
     /\ loc[1].edges[1].score < MATCH_THRESHOLD)
      => loc[1].pairs = <<>>

\* the edge scores 70, both priorities are 20 or more, nothing was selected
C13_Witness ==
    /\ pc[1] = "selected"
    /\ Len(loc[1].edges) = 1
    /\ loc[1].edges[1].score = 7000
    /\ \A u \in {1, 2} : loc[1].users[u].priority >= 20
    /\ loc[1].pairs = <<>>

\* C18: find_matching_pairs returns the same set of pairs for every order
\* in which the same edges are handed to it, with the same queue entries
C18_OrderIndependent ==
    pc[1] = "selected" =>
        LET es == loc[1].edges
            S == {es[j] : j \in DOMAIN es}
            P == {loc[1].pairs[j] : j \in DOMAIN loc[1].pairs}
        IN \A other \in SeqsOf(S) :
             LET ps == find_matching_pairs(other, loc[1].users, MATCH_THRESHOLD)
             IN {ps[j] : j \in DOMAIN ps} = P

\* C19: save_edge for two entries a, b and save_edge for b, a write the
\* same key and the same endpoints, the smaller user_pk first
C19_CanonicalKey ==
    cpc = "scored" =>
        /\ cloc.ab.key = cloc.ba.key
        /\ cloc.ab.data.user_a_pk = cloc.ba.data.user_a_pk
        /\ cloc.ab.data.user_b_pk = cloc.ba.data.user_b_pk
        /\ cloc.ab.data.user_a_pk = Min(cloc.user_a.user_pk, cloc.user_b.user_pk)
        /\ cloc.ab.data.user_b_pk = Max(cloc.user_a.user_pk, cloc.user_b.user_pk)

\* the first entry has the larger user_pk and both writes went to the key
\* of (second, first)
C19_Witness ==
    /\ cpc = "scored"
    /\ cloc.user_a.user_pk > cloc.user_b.user_pk
    /\ cloc.ab.key = <<cloc.user_b.user_pk, cloc.user_a.user_pk>>
    /\ cloc.ba.key = cloc.ab.key

\* C20: calculate_final_score gives the same score for two entries in
\* either order, the penalty and a weight total of 0 on one side included
C20_ScoreSymmetry ==
    cpc = "scored" => cloc.ab.data.score = cloc.ba.data.score

\* the first entry's weights sum to 0 and the second's do not, the two
\* directions score differently, a penalty applies and the score is not 0
C20_Witness ==
    /\ cpc = "scored"
    /\ SumOver(SurveyKeys, cloc.user_a.weights) = 0
    /\ SumOver(SurveyKeys, cloc.user_b.weights) > 0
    /\ _calculate_one_direction(cloc.user_a, cloc.user_b)
         # _calculate_one_direction(cloc.user_b, cloc.user_a)
    /\ calculate_basic_penalty(cloc.user_a, cloc.user_b) > 0
    /\ cloc.ab.data.score > 0

\* C17: when a cycle has run to its end with the notifier enabled, one
\* 'expired' notification has been handed to the notifier for every entry
\* the cycle expired (key deleted, match_status 9 committed) whose user has
\* an email
C17_ExpiredNotified ==
    \A i \in Insts : (pc[i] = "release" /\ log[i].completed /\ NotifierEnabled) =>
        \A u \in Users :
            (/\ <<u, "expired">> \in log[i].evicted
             /\ <<u, EXPIRED>> \in log[i].st
             /\ HasEmail(u))
              => <<u, "expired">> \in log[i].sent

\* C14: a cycle that acquired the lock when two queued users of equal
\* gender, both processed by the Edge Calculator, had the only edge in the
\* cache and that edge reached the threshold, and that met no Redis or DB
\* error, ends with one committed match_history row for the two, both
\* property rows committed as 2 and both queue keys deleted, unless one of
\* them cancelled
C14_ReadyPairCommitted ==
    \A i \in Insts :
        (/\ pc[i] = "release"
         /\ log[i].err \notin {"RedisError", "DbError"}
         /\ log[i].failed = {}) =>
            \A p \in log[i].ready :
                (status[p[1]] # NOT_STARTED /\ status[p[2]] # NOT_STARTED) =>
                    /\ p \in log[i].rows
                    /\ history[p] = 1
                    /\ \A u \in {p[1], p[2]} :
                         /\ <<u, MATCHED>> \in log[i].st
                         /\ <<u, "paired">> \in log[i].evicted
                         /\ ~Present(queue[u])

\* C15: no edge in the cache joins two users of different gender; when the
\* Edge Calculator has gone through the users it compares a new user with,
\* every one of them of the new user's gender has an edge with it; and a
\* cycle that acquired the lock when the queue was two entries of different
\* gender with priority 0, both processed by the Edge Calculator, and the
\* cache held no edge, and that met no Redis or DB error, ends with both
\* entries queued with priority 1 unless one of them cancelled
C15_HardFilter ==
    /\ \A p \in Pairs : edges[p] # NoEdge => Gender(p[1]) = Gender(p[2])
    /\ cpc \in {"mark_get", "mark_set"} =>
         \A v \in cloc.calc \ {Head(cloc.new)} :
             Gender(v) = Gender(Head(cloc.new))
               => edges[EdgeKey(Head(cloc.new), v)] # NoEdge
    /\ \A i \in Insts :
         (/\ pc[i] = "release"
          /\ log[i].mixed
          /\ log[i].err \notin {"RedisError", "DbError"}
          /\ \A u \in Users : status[u] = IN_QUEUE <=> Present(queue[u])) =>
              /\ \A p \in Pairs : edges[p] = NoEdge
              /\ \A u \in PresentUsers(queue) : queue[u].priority = 1
              /\ Cardinality(PresentUsers(queue)) = 2

\* C16: remove_expired_users deletes a queue key only if the entry stored
\* under it was registered more than EXPIRE_HOURS before the time the
\* function read; and when a cycle has run to its end, every entry it
\* expired has its property row committed as 9 and no match_history row of
\* the cycle, and no entry older than that is left in the queue
C16_Expiry ==
    [][\A i \in Insts :
          /\ (pc[i] = "exp_del" /\ loc'[i].cur # loc[i].cur /\ Present(queue[loc[i].cur]))
               => Expired(queue[loc[i].cur], loc[i].now)
          /\ (pc[i] = "release" /\ pc'[i] = "sleep" /\ log[i].completed) =>
               /\ \A u \in Users : <<u, "expired">> \in log[i].evicted =>
                    /\ <<u, EXPIRED>> \in log[i].st
                    /\ \A p \in log[i].rows : u \notin {p[1], p[2]}
               /\ \A u \in PresentUsers(loc[i].users) :
                    (Present(queue[u]) /\ queue[u] = loc[i].users[u])
                      => ~Expired(queue[u], loc[i].now)]_vars

\* C21: the score save_edge stores for two entries lies between 0 and 100
\* (in hundredths: 0 and 10000), both included
C21_ScoreRange ==
    cpc = "scored" =>
        /\ 0 <= cloc.ab.data.score /\ cloc.ab.data.score <= 10000
        /\ 0 <= cloc.ba.data.score /\ cloc.ba.data.score <= 10000

\* every weight of both entries is 0.5 or 1.5, the similarity is below the
\* penalty and the stored score is 0
C21_Witness ==
    /\ cpc = "scored"
    /\ \A k \in SurveyKeys : cloc.user_a.weights[k] > 0 /\ cloc.user_b.weights[k] > 0
    /\ calculate_similarity(cloc.user_a, cloc.user_b)
         < calculate_basic_penalty(cloc.user_a, cloc.user_b)
    /\ cloc.ab.data.score = 0

\* C22: the step of process_matched_pairs in which the notifications of a
\* pair fail keeps the pair's UPDATE in the transaction, moves on to the
\* deletion of the pair's queue keys, raises nothing and touches neither the
\* cache nor the DB; and the step of remove_expired_users that ends with
\* _send_expired_notifications always moves on to increment_priorities
C22_NotifierBestEffort ==
    [][\A i \in Insts :
          /\ (pc[i] = "pair_update" /\ log'[i].nfail # log[i].nfail) =>
               LET e == Head(loc[i].pairs) IN
               /\ pc'[i] = "pair_del_a"
               /\ txn'[i] = [txn[i] EXCEPT !.upd = @ \cup {e.a, e.b}]
               /\ loc'[i] = loc[i]
               /\ log'[i].err = "none"
               /\ log'[i].failed = log[i].failed
               /\ UNCHANGED <<queue, edges, status, history>>
          /\ (pc[i] = "exp_update" /\ pc'[i] # pc[i]) =>
               /\ pc'[i] = "inc_keys"
               /\ log'[i].err = log[i].err
               /\ UNCHANGED <<queue, edges, history>>]_vars

\* a cycle ran to its end, the notifications of a pair failed in it, and
\* the pair's history row and both status updates are committed and both
\* queue keys were deleted
C22_Witness ==
    \E i \in Insts : \E p \in log[i].nfail :
        /\ pc[i] = "release"
        /\ log[i].completed
        /\ p \in log[i].rows
        /\ \A u \in {p[1], p[2]} :
             /\ <<u, MATCHED>> \in log[i].st
             /\ <<u, "paired">> \in log[i].evicted


\* ---------------------------------------------------------- EmailNotifier
\* EmailNotifier on its own: every configuration (EMAIL_ENABLED, the two AWS
\* keys, "" when unset), one send request of the Scheduler (notify_matched
\* from _send_match_notifications, notify_expired from
\* _send_expired_notifications) to one recipient, and the outcome SES gives
NotifierConfigs ==
    [EMAIL_ENABLED : BOOLEAN, AWS_ACCESS_KEY_ID : {"", "key"},
     AWS_SECRET_ACCESS_KEY : {"", "secret"}]
SesOutcomes == {"MessageId", "ClientError"}

\* EmailNotifier.__init__: self.enabled
Enabled(cfg) ==
    /\ cfg.EMAIL_ENABLED
    /\ cfg.AWS_ACCESS_KEY_ID # ""
    /\ cfg.AWS_SECRET_ACCESS_KEY # ""

\* EmailNotifier._send_email: one send_email call to SES; False when it raises
send_email(ses) ==
    [ret |-> IF ses = "MessageId" THEN "True" ELSE "False", calls |-> 1]

\* EmailNotifier.notify_matched: what it returns and the SES calls it causes
\* (with async_send the call is made by the thread it starts)
notify_matched(cfg, async_send, ses) ==
    IF ~Enabled(cfg) THEN [ret |-> "False", calls |-> 0]
    ELSE IF async_send THEN [ret |-> "True", calls |-> 1]
    ELSE send_email(ses)

\* a call of a method on the EmailNotifier instance: a method the class does
\* not define raises AttributeError
NotifierCall(method, cfg, async_send, ses) ==
    IF method \in EmailNotifierMethods
    THEN notify_matched(cfg, async_send, ses)
    ELSE [ret |-> "AttributeError", calls |-> 0]

InitNotify ==
    /\ queue = EmptyQueue
    /\ edges = [p \in Pairs |-> NoEdge]
    /\ lock = NoLock
    /\ status = [u \in Users |-> NOT_STARTED]
    /\ history = [p \in Pairs |-> 0]
    /\ now = 0
    /\ regs = 0
    /\ cpc = "idle"
    /\ \E cfg \in NotifierConfigs, m \in {"notify_matched", "notify_expired"},
          u \in Users, a \in BOOLEAN, ses \in SesOutcomes :
         \* _send_expired_notifications returns before any call when the
         \* notifier is not enabled
         /\ m = "notify_expired" => Enabled(cfg)
         /\ cloc = [cfg |-> cfg, method |-> m, recipient |-> u, async_send |-> a,
                 ses |-> ses, ret |-> "none", calls |-> 0]
    /\ pc = [i \in Insts |-> "sleep"]
    /\ loc = Idle
    /\ txn = [i \in Insts |-> TxnInit]
    /\ log = [i \in Insts |-> LogInit]
    /\ ghost = GhostInit
Notify ==
    /\ cpc = "idle"
    /\ cpc' = "notified"
    /\ LET r == NotifierCall(cloc.method, cloc.cfg, cloc.async_send, cloc.ses) IN
       cloc' = [cloc EXCEPT !.ret = r.ret, !.calls = r.calls]
    /\ UNCHANGED <<cacheVars, dbVars, now, regs, schedVars, ghost>>
NextNotify == Notify
SpecNotify == InitNotify /\ [][NextNotify]_vars

\* C23: with the notifier disabled (EMAIL_ENABLED false or an AWS key
\* missing) a send request makes no SES call and returns success
C23_DisabledNoOp ==
    (cpc = "notified" /\ ~Enabled(cloc.cfg)) =>
        /\ cloc.calls = 0
        /\ cloc.ret = "True"


\* C24: when the SET of mark_as_calculated is the last step of an Edge
\* Calculator pass, the pass has left no well-formed new entry unprocessed:
\* the new entries it did not get to are the malformed ones (without
\* user_pk), skipped one by one
C24_MalformedSkippedAlone ==
    [][(cpc = "mark_set" /\ cpc' = "idle" /\ queue' # queue) =>
          \A k \in 2..Len(cloc.new) : ~HasUserPk(cloc.new[k])]_vars


\* C25: an iteration whose cycle was left by a Redis error has committed no
\* DB write in that cycle: no match_history row and no match_status update
C25_CacheErrorNoCommit ==
    \A i \in Insts :
        log[i].err = "RedisError" => log[i].rows = {} /\ log[i].st = {}


\* C25, amended: once a Redis error has left the cycle, the iteration goes
\* to the release of the lock with no statement pending and commits nothing
\* more: the rows and status updates it has committed are those committed
\* before the error
C25_CacheErrorNoLaterCommit ==
    [][\A i \in Insts :
          log'[i].err = "RedisError" =>
              /\ pc'[i] = "release"
              /\ txn'[i] = TxnInit
              /\ log'[i].rows = log[i].rows
              /\ log'[i].st = log[i].st]_vars

\* a Redis error left the cycle after the first queue key of a pair was
\* deleted, with the pair's INSERT and UPDATE pending: nothing is committed
C25_Witness ==
    \E i \in Insts : \E p \in Pairs :
        /\ log[i].err = "RedisError"
        /\ <<p[1], "paired">> \in log[i].evicted
        /\ <<p[2], "paired">> \notin log[i].evicted
        /\ log[i].rows = {} /\ log[i].st = {}
        /\ history[p] = 0
        /\ txn[i] = TxnInit


\* C26: an instance that is in its sleep does not hold the lock: the key is
\* absent or holds the token of the other instance
C26_NoIdleHolder ==
    \A i \in Insts :
        pc[i] = "sleep" => (lock = NoLock \/ lock.owner # i)

\* an instance has released its own lock (the script returned 1) and
\* sleeps, having run all the cycles it may run, and the key is absent
C26_Witness ==
    \E i \in Insts :
        /\ pc[i] = "sleep"
        /\ loc[i].cycles = MaxCycles
        /\ loc[i].unlocked = 1
        /\ lock = NoLock


\* C27: when a killed instance has left the key holding its token, the key
\* goes away; and an acquire_lock of the other instance made while an
\* instance is dead and the key is absent succeeds
C27_CrashedLockExpires ==
    /\ \A i \in Insts :
         (pc[i] = "crashed" /\ lock # NoLock /\ lock.owner = i) ~> (lock = NoLock)
    /\ [][\A i, j \in Insts :
            (pc[i] = "crashed" /\ lock = NoLock /\ pc[j] = "sleep" /\ pc'[j] # "sleep")
              => (lock' = MyToken(j)' /\ pc'[j] = "snap_edges")]_vars

\* an instance was killed while it held the lock, the key ran out and the
\* other instance holds the lock and runs a cycle
C27_Witness ==
    \E i, j \in Insts :
        /\ pc[i] = "crashed"
        /\ ghost.ttl
        /\ lock # NoLock /\ lock.owner = j
        /\ j # i
        /\ pc[j] \notin {"sleep", "release", "crashed"}


\* ----------------------------------------------------------- login attempts
\* account/utils/redis_utils.py: the login_attempts:<email> keys of the Django
\* cache, as a function from e-mail to [value, timeout]; a missing key reads
\* as the default 0 of cache.get(key, 0).  The calls are made one after the
\* other, as in test_login_attempts_tracking, and no timeout runs out.
Emails == {"a@gist.ac.kr", "b@gist.ac.kr"}
MaxCalls == 7
NoKey == [value |-> 0, timeout |-> 0]

\* increment_login_attempts: the entry it stores (and the count it returns)
increment_login_attempts(c, email) ==
    LET attempts == c[email].value + 1
    IN [c EXCEPT ![email] = [value |-> attempts,
                             timeout |-> IF attempts >= 5 THEN 1800 ELSE 300]]

\* check_login_attempts with the lock one attempt later
check_login_attempts_late(c, email) ==
    [is_locked |-> c[email].value > 5, attempts |-> c[email].value]

\* check_login_attempts: (is_locked, attempts)
check_login_attempts(c, email) ==
    [is_locked |-> c[email].value >= 5, attempts |-> c[email].value]

\* reset_login_attempts: cache.delete(key)
reset_login_attempts(c, email) == [c EXCEPT ![email] = NoKey]

\* cloc.cache: the keys; cloc.calls: the increment_login_attempts calls made
\* for each e-mail since its last reset_login_attempts; cloc.ret: the last
\* call and what it returned
InitLogin ==
    /\ queue = EmptyQueue
    /\ edges = [p \in Pairs |-> NoEdge]
    /\ lock = NoLock
    /\ status = [u \in Users |-> NOT_STARTED]
    /\ history = [p \in Pairs |-> 0]
    /\ now = 0
    /\ regs = 0
    /\ cpc = "idle"
    /\ cloc = [cache |-> [e \in Emails |-> NoKey],
               calls |-> [e \in Emails |-> 0],
               ret |-> [op |-> "none", email |-> "", is_locked |-> FALSE, attempts |-> 0]]
    /\ pc = [i \in Insts |-> "sleep"]
    /\ loc = Idle
    /\ txn = [i \in Insts |-> TxnInit]
    /\ log = [i \in Insts |-> LogInit]
    /\ ghost = GhostInit
LoginIncrement(email) ==
    /\ cloc.calls[email] < MaxCalls
    /\ LET c == increment_login_attempts(cloc.cache, email) IN
       cloc' = [cache |-> c,
                calls |-> [cloc.calls EXCEPT ![email] = @ + 1],
                ret |-> [op |-> "increment", email |-> email, is_locked |-> FALSE,
                         attempts |-> c[email].value]]
LoginCheck(email) ==
    LET r == check_login_attempts(cloc.cache, email) IN
    cloc' = [cloc EXCEPT !.ret = [op |-> "check", email |-> email,
                                  is_locked |-> r.is_locked, attempts |-> r.attempts]]
LoginReset(email) ==
    cloc' = [cache |-> reset_login_attempts(cloc.cache, email),
             calls |-> [cloc.calls EXCEPT ![email] = 0],
             ret |-> [op |-> "reset", email |-> email, is_locked |-> FALSE, attempts |-> 0]]
NextLogin ==
    /\ \E email \in Emails :
         LoginIncrement(email) \/ LoginCheck(email) \/ LoginReset(email)
    /\ UNCHANGED <<cacheVars, dbVars, now, regs, cpc, schedVars, ghost>>
SpecLogin == InitLogin /\ [][NextLogin]_vars

\* C28: for each e-mail, check_login_attempts returns (False, n) when n < 5
\* increment_login_attempts calls were made for it since its last reset
\* (n = 0 right after reset_login_attempts), and is_locked = True when 5 or
\* more were made
C28_LoginAttempts ==
    cloc.ret.op = "check" =>
        LET n == cloc.calls[cloc.ret.email] IN
        IF n < 5
        THEN ~cloc.ret.is_locked /\ cloc.ret.attempts = n
        ELSE cloc.ret.is_locked

\* one e-mail is checked right after its 5th increment and is locked, while
\* the other e-mail, reset after 5 increments, holds no key
C28_Witness ==
    \E e, o \in Emails :
        /\ e # o
        /\ cloc.ret = [op |-> "check", email |-> e, is_locked |-> TRUE, attempts |-> 5]
        /\ cloc.calls[e] = 5
        /\ cloc.calls[o] = 0
        /\ cloc.cache[o] = NoKey
        /\ cloc.cache[e].timeout = 1800


\* C29: within a cycle a queue key is deleted for a pair, and a 'matched'
\* notification is dispatched to a user, only when the history row of that
\* user's pair has been committed
C29_CommitBeforeEvictAndNotify ==
    \A i \in Insts : \A u \in Users :
        (<<u, "paired">> \in log[i].evicted \/ <<u, "matched">> \in log[i].sent)
            => \E p \in log[i].rows : u \in {p[1], p[2]}


C31_GreedyBySortKey ==
    pc[1] = "selected" =>
        LET es == loc[1].edges
            ps == loc[1].pairs
            adm == {j \in DOMAIN es : es[j].score >= MATCH_THRESHOLD}
            psum(j) == PrioritySum(loc[1].users, es[j])
            Before(j, k) ==
                \/ psum(j) > psum(k)
                \/ psum(j) = psum(k) /\ es[j].score > es[k].score
                \/ psum(j) = psum(k) /\ es[j].score = es[k].score /\ j < k
            Conflict(j, k) == j # k /\ {es[j].a, es[j].b} \cap {es[k].a, es[k].b} # {}
            chosen == {j \in adm : \E k \in DOMAIN ps : ps[k] = es[j]}
        IN /\ \A k \in DOMAIN ps : \E j \in adm : ps[k] = es[j]
           /\ Len(ps) = Cardinality(chosen)
           /\ \A k1, k2 \in DOMAIN ps : k1 < k2 =>
                \E j1, j2 \in adm : ps[k1] = es[j1] /\ ps[k2] = es[j2] /\ Before(j1, j2)
           /\ \A j \in adm :
                j \in chosen <=> ~\E k \in chosen : Conflict(k, j) /\ Before(k, j)

\* an edge was chosen over an admitted edge that shares a user with it and
\* has the higher score but the lower priority sum
C31_Witness ==
    /\ pc[1] = "selected"
    /\ \E k \in DOMAIN loc[1].pairs : \E j \in DOMAIN loc[1].edges :
         LET e == loc[1].pairs[k]
             f == loc[1].edges[j]
         IN /\ f.score >= MATCH_THRESHOLD
            /\ f.score > e.score
            /\ PrioritySum(loc[1].users, f) < PrioritySum(loc[1].users, e)
            /\ {e.a, e.b} \cap {f.a, f.b} # {}
            /\ \A m \in DOMAIN loc[1].pairs : loc[1].pairs[m] # f


\* C32: a queue entry that has no edge_calculated = true leaves the queue or
\* gets edge_calculated = true
C32_EventuallyCalculated ==
    \A u \in Users :
        (Present(queue[u]) /\ ~queue[u].edge_calculated)
            ~> (~Present(queue[u]) \/ queue[u].edge_calculated)


\* C33: no write sets match_status to 2 or 9 for a user whose property row
\* is at 0 (cancelled, or never registered), and no match_history row is
\* committed that names such a user
C33_NoWriteAfterCancel ==
    [][/\ \A u \in Users :
            status[u] = NOT_STARTED => status'[u] \notin {MATCHED, EXPIRED}
       /\ \A p \in Pairs :
            history'[p] > history[p] =>
                status[p[1]] # NOT_STARTED /\ status[p[2]] # NOT_STARTED]_vars


\* C34: after find_matching_pairs returned, every edge of its input that
\* reaches the threshold and joins two users of the snapshot has a user that
\* is in one of the returned pairs
C34_Maximal ==
    pc[1] = "selected" =>
        LET paired == UNION {{loc[1].pairs[k].a, loc[1].pairs[k].b} : k \in DOMAIN loc[1].pairs}
        IN \A j \in DOMAIN loc[1].edges :
             LET e == loc[1].edges[j] IN
             (/\ e.score >= MATCH_THRESHOLD
              /\ Present(loc[1].users[e.a]) /\ Present(loc[1].users[e.b]))
                => (e.a \in paired \/ e.b \in paired)

\* one pair was returned and two further edges that reach the threshold were
\* left out, each sharing a user with the pair
C34_Witness ==
    /\ pc[1] = "selected"
    /\ Len(loc[1].pairs) = 1
    /\ Cardinality({j \in DOMAIN loc[1].edges :
                      /\ loc[1].edges[j].score >= MATCH_THRESHOLD
                      /\ loc[1].edges[j] # loc[1].pairs[1]
                      /\ {loc[1].edges[j].a, loc[1].edges[j].b}
                           \cap {loc[1].pairs[1].a, loc[1].pairs[1].b} # {}}) = 2


\* C35: a match_history row is committed for two users only when the queue
\* entries of both, as the cycle read them, have edge_calculated = true
C35_PairedThroughComputedEdge ==
    [][\A p \in Pairs :
          history'[p] > history[p] =>
              \E i \in Insts :
                  /\ pc[i] = "commit"
                  /\ Present(loc[i].users[p[1]]) /\ loc[i].users[p[1]].edge_calculated
                  /\ Present(loc[i].users[p[2]]) /\ loc[i].users[p[2]].edge_calculated]_vars


\* C36: no pair has more than one committed match_history row (with at most
\* MaxRegs registrations in all, no two users can both register twice)
C36_OneRowPerRegistration ==
    \A p \in Pairs : history[p] <= 1


\* ------------------------------------------------- approval of a match row
\* MatchingService.agree / cancel_matching / reject on the match_history rows
\* of one pair and the property rows of its two users.  A row starts as the
\* Scheduler inserted it (both approvals and the final status PENDING); the
\* pair has one row, or more where a cycle committed its INSERT and left the
\* pair in the queue (C36); cloc.rows is in the order of matched_at.  A
\* property row starts at 2, or at 1 or 0 where the Scheduler's UPDATE did not
\* reach it or the user cancelled.  cloc.seen[u] is the match_status
\* cancel_matching read before its transaction, as a set (empty: no call of u
\* is between the two).
MY_APPROVED == 3
BOTH_APPROVED == 4
PARTNER_REJECTED == 5
MaxRows == 2
RowUsers == {"a", "b"}
Partner(u) == IF u = "a" THEN "b" ELSE "a"
NewRow == [a |-> "PENDING", b |-> "PENDING", final |-> "PENDING"]

\* the queryset filter final_match_status = PENDING of agree and
\* _cancel_with_partner
PendingRow(row) == row.final = "PENDING"

\* .order_by('-matched_at').first() over the PENDING rows: the index of the
\* latest one, 0 where the queryset is empty
LatestPending(rows) ==
    LET P == {k \in 1..Len(rows) : PendingRow(rows[k])} IN
    IF P = {} THEN 0 ELSE CHOOSE k \in P : \A j \in P : j <= k

\* an agree that settles the match unless the partner has rejected
PartnerNotRejected(partner_approval) == partner_approval # "REJECTED"

\* agree: partner_approval == ApprovalChoice.APPROVED
PartnerApproved(partner_approval) == partner_approval = "APPROVED"

InitApproval ==
    /\ queue = EmptyQueue
    /\ edges = [p \in Pairs |-> NoEdge]
    /\ lock = NoLock
    /\ status = [u \in Users |-> NOT_STARTED]
    /\ history = [p \in Pairs |-> 0]
    /\ now = 0
    /\ regs = 0
    /\ cpc = "idle"
    /\ \E n \in 1..MaxRows, pr \in [RowUsers -> {NOT_STARTED, IN_QUEUE, MATCHED}] :
         cloc = [rows |-> [k \in 1..n |-> NewRow], prop |-> pr,
                 seen |-> [u \in RowUsers |-> {}]]
    /\ pc = [i \in Insts |-> "sleep"]
    /\ loc = Idle
    /\ txn = [i \in Insts |-> TxnInit]
    /\ log = [i \in Insts |-> LogInit]
    /\ ghost = GhostInit

\* MatchingService.start_matching on the property row: only from status 0,
\* to status 1
start_matching_row(u) ==
    /\ cloc.prop[u] = NOT_STARTED
    /\ cloc' = [cloc EXCEPT !.prop[u] = IN_QUEUE]

\* process_matched_pairs for the pair, both of its users waiting: the INSERT
\* of a row with approvals and final status 0 and the UPDATE of both
\* property rows to 2
insert_match ==
    /\ Len(cloc.rows) < MaxRows
    /\ \A u \in RowUsers : cloc.prop[u] = IN_QUEUE
    /\ cloc' = [cloc EXCEPT !.rows = Append(cloc.rows, NewRow),
                             !.prop = [u \in RowUsers |-> MATCHED]]

\* MatchingService.agree, one transaction under select_for_update
agree(u) ==
    LET k == LatestPending(cloc.rows) IN
    /\ cloc.seen[u] = {}
    /\ k # 0
    /\ cloc.prop[u] = MATCHED
    /\ LET row == [cloc.rows[k] EXCEPT ![u] = "APPROVED"] IN
       IF PartnerApproved(row[Partner(u)])
       THEN cloc' = [cloc EXCEPT
                !.rows[k] = [row EXCEPT !.final = "SUCCESS"],
                !.prop = [v \in RowUsers |-> BOTH_APPROVED]]
       ELSE cloc' = [cloc EXCEPT !.rows[k] = row, !.prop[u] = MY_APPROVED]

\* cancel_matching (and reject, which calls it): the status read without a
\* lock; status 1 leaves the queue at once, status 2 and 3 go on to
\* _cancel_with_partner
cancel_read(u) ==
    /\ cloc.seen[u] = {}
    /\ cloc.prop[u] \in {IN_QUEUE, MATCHED, MY_APPROVED}
    /\ IF cloc.prop[u] = IN_QUEUE
       THEN cloc' = [cloc EXCEPT !.prop[u] = NOT_STARTED]
       ELSE cloc' = [cloc EXCEPT !.seen[u] = {cloc.prop[u]}]

\* _cancel_with_partner, one transaction under select_for_update
_cancel_with_partner(u) ==
    LET k == LatestPending(cloc.rows) IN
    /\ cloc.seen[u] # {}
    /\ IF k # 0 /\ cloc.prop[u] \in cloc.seen[u]
       THEN cloc' = [cloc EXCEPT
                !.rows[k] = [cloc.rows[k] EXCEPT ![u] = "REJECTED",
                                                 !.final = "FAILED"],
                !.prop = [v \in RowUsers |->
                            IF v = u THEN NOT_STARTED
                            ELSE IF cloc.prop[v] \in {MATCHED, MY_APPROVED}
                                 THEN PARTNER_REJECTED ELSE cloc.prop[v]],
                !.seen[u] = {}]
       ELSE cloc' = [cloc EXCEPT !.seen[u] = {}]
NextApproval ==
    /\ \/ \E u \in RowUsers : start_matching_row(u)
       \/ insert_match
       \/ \E u \in RowUsers : agree(u)
       \/ \E u \in RowUsers : cancel_read(u)
       \/ \E u \in RowUsers : _cancel_with_partner(u)
    /\ UNCHANGED <<cacheVars, dbVars, now, regs, cpc, schedVars, ghost>>
SpecApproval == InitApproval /\ [][NextApproval]_vars

\* C37: every row's final status is SUCCESS only with both approvals APPROVED
\* and FAILED only with an approval REJECTED; and a row that is SUCCESS or
\* FAILED is not changed by any agree, cancel_matching or reject
C37_FinalStatus ==
    /\ [](\A k \in 1..Len(cloc.rows) :
            /\ cloc.rows[k].final = "SUCCESS" =>
                 (cloc.rows[k].a = "APPROVED" /\ cloc.rows[k].b = "APPROVED")
            /\ cloc.rows[k].final = "FAILED" =>
                 (cloc.rows[k].a = "REJECTED" \/ cloc.rows[k].b = "REJECTED"))
    /\ [][\A k \in 1..Len(cloc.rows) :
            cloc.rows[k].final # "PENDING" => cloc'.rows[k] = cloc.rows[k]]_vars

\* a row is FAILED: one user had agreed, the other rejected, and the user
\* who agreed has a cancel_matching between its read and its transaction
C37_Witness ==
    \E k \in 1..Len(cloc.rows), u \in RowUsers :
         /\ cloc.rows[k].final = "FAILED"
         /\ cloc.rows[k][u] = "APPROVED"
         /\ cloc.rows[k][Partner(u)] = "REJECTED"
         /\ cloc.seen[u] = {MY_APPROVED}



\* ------------------------------------------- edges of register_user entries
\* Edge Calculator, one Scheduler instance and the producer of user_pk
\* entries, from the state where users 1 and 2 have just registered through
\* RedisQueueService.register_user and the cache holds no edge; the loop of
\* run_polling runs for ever, as in SpecPolling
QueueRegistered ==
    [u \in Users |-> IF u \in {1, 2} THEN NewEntry(MaxNow) ELSE NoEntry]
InitRegistered == InitWith({}, QueueRegistered, MaxNow, Idle)
SpecRegistered ==
    /\ InitRegistered
    /\ [][NextAging]_vars
    /\ WF_vars(CalcPoll)
    /\ SF_vars(save_edge) /\ SF_vars(MarkGet) /\ SF_vars(MarkSet)

\* C38: for two queue entries created by register_user that pass the hard
\* filter, unless one of the two users cancels, the Edge Calculator writes an
\* edge record under their key, and the record carries the two user ids in
\* the fields the Scheduler reads (user_a_id, user_b_id).  Expiry is no way
\* out: a pair that ages to its expiry without an edge record was never
\* given one.
C38_RegisteredEdgeReadable ==
    \A p \in {q \in Pairs : /\ HasUserId(q[1]) /\ HasUserId(q[2])
                            /\ check_hard_filter(Profile(q[1]), Profile(q[2]))} :
        (Present(queue[p[1]]) /\ Present(queue[p[2]]))
            ~> \/ status[p[1]] = NOT_STARTED
               \/ status[p[2]] = NOT_STARTED
               \/ (edges[p] # NoEdge /\ EdgeHasIds(EdgeAt(p)))

=============================================================================
